---- MODULE Spec2Model ----
(***************************************************************************)
(* auditarr: the signal-combination engine (internal/analysis), the grace  *)
(* evaluators and the suspicious-file detector (internal/models), and the  *)
(* path helpers (internal/utils).                                          *)
(*                                                                         *)
(* Go strings are modelled as sequences of one-character strings, so that  *)
(* filepath.Ext, filepath.Base, filepath.Clean, strings.Split,             *)
(* strings.HasPrefix and strings.ToLower are computed as the library       *)
(* computes them.  Timestamps are whole hours since the zero time.Time.    *)
(***************************************************************************)
EXTENDS Integers, Sequences, FiniteSets, TLC

(***************************************************************************)
(* strings, path/filepath                                                  *)
(***************************************************************************)

UpperChars == <<"A","B","C","D","E","F","G","H","I","J","K","L","M",
                "N","O","P","Q","R","S","T","U","V","W","X","Y","Z">>

LowerChars == <<"a","b","c","d","e","f","g","h","i","j","k","l","m",
                "n","o","p","q","r","s","t","u","v","w","x","y","z">>

ToLowerChar(c) ==
    IF \E i \in 1..26 : UpperChars[i] = c
    THEN LowerChars[CHOOSE i \in 1..26 : UpperChars[i] = c]
    ELSE c

RECURSIVE ToLower(_)
ToLower(s) ==
    IF s = <<>> THEN <<>> ELSE <<ToLowerChar(Head(s))>> \o ToLower(Tail(s))

HasPrefix(s, prefix) ==
    Len(prefix) <= Len(s) /\ SubSeq(s, 1, Len(prefix)) = prefix

TrimPrefix(s, prefix) ==
    IF HasPrefix(s, prefix) THEN SubSeq(s, Len(prefix) + 1, Len(s)) ELSE s

\* strings.Split(s, sep) for a one-character separator: always at least one part
RECURSIVE SplitFrom(_, _, _)
SplitFrom(s, sep, cur) ==
    IF s = <<>> THEN <<cur>>
    ELSE IF Head(s) = sep THEN <<cur>> \o SplitFrom(Tail(s), sep, <<>>)
    ELSE SplitFrom(Tail(s), sep, Append(cur, Head(s)))

Split(s, sep) == SplitFrom(s, sep, <<>>)

RECURSIVE JoinWith(_, _)
JoinWith(parts, sep) ==
    IF parts = <<>> THEN <<>>
    ELSE IF Len(parts) = 1 THEN parts[1]
    ELSE parts[1] \o <<sep>> \o JoinWith(Tail(parts), sep)

\* filepath.Ext: the suffix from the last dot of the last path element
RECURSIVE ExtFrom(_, _)
ExtFrom(path, i) ==
    IF i < 1 \/ path[i] = "/" THEN <<>>
    ELSE IF path[i] = "." THEN SubSeq(path, i, Len(path))
    ELSE ExtFrom(path, i - 1)

Ext(path) == ExtFrom(path, Len(path))

RECURSIVE StripTrailingSlashes(_)
StripTrailingSlashes(path) ==
    IF Len(path) > 0 /\ path[Len(path)] = "/"
    THEN StripTrailingSlashes(SubSeq(path, 1, Len(path) - 1))
    ELSE path

\* filepath.Base: the last element of the path
Base(path) ==
    IF path = <<>> THEN <<".">>
    ELSE LET p == StripTrailingSlashes(path)
             parts == Split(p, "/")
         IN  IF p = <<>> THEN <<"/">> ELSE parts[Len(parts)]

\* filepath.Clean: the lexical processing of the path's elements
RECURSIVE CleanElems(_, _, _)
CleanElems(elems, rooted, out) ==
    IF elems = <<>> THEN out
    ELSE LET e == Head(elems)
             rest == Tail(elems)
         IN  IF e = <<>> \/ e = <<".">> THEN CleanElems(rest, rooted, out)
             ELSE IF e = <<".", ".">>
                  THEN IF out # <<>> /\ out[Len(out)] # <<".", ".">>
                       THEN CleanElems(rest, rooted, SubSeq(out, 1, Len(out) - 1))
                       ELSE IF rooted THEN CleanElems(rest, rooted, out)
                       ELSE CleanElems(rest, rooted, Append(out, e))
                  ELSE CleanElems(rest, rooted, Append(out, e))

Clean(path) ==
    IF path = <<>> THEN <<".">>
    ELSE LET rooted == path[1] = "/"
             body == JoinWith(CleanElems(Split(path, "/"), rooted, <<>>), "/")
             res == IF rooted THEN <<"/">> \o body ELSE body
         IN  IF res = <<>> THEN <<".">> ELSE res

\* filepath.Join of two elements: empty elements are ignored, the result is Cleaned
Join(a, b) ==
    IF a = <<>> /\ b = <<>> THEN <<>>
    ELSE IF a = <<>> THEN Clean(b)
    ELSE IF b = <<>> THEN Clean(a)
    ELSE Clean(a \o <<"/">> \o b)


(***************************************************************************)
(* time                                                                    *)
(***************************************************************************)

\* time.Time{}: the zero instant, from which timestamps are counted (hours)
ZeroTime == 0

\* the largest time.Duration (2^63 - 1 ns), in whole hours
MaxDuration == 2562047

IsZero(t) == t = ZeroTime

\* time.Since(t) = time.Now().Sub(t): Sub saturates at the largest duration
Since(t, clock) ==
    LET d == clock - t
    IN  IF d > MaxDuration THEN MaxDuration
        ELSE IF d < -MaxDuration THEN -MaxDuration
        ELSE d

(***************************************************************************)
(* internal/models                                                         *)
(***************************************************************************)

\* mutant: a file exactly hours old still counts as within grace
MediaFileWithinGraceWindow_Inclusive(modTime, hours, clock) ==
    IF hours <= 0 THEN FALSE
    ELSE LET elapsed == Since(modTime, clock)
         IN  IF elapsed < 0 THEN TRUE
             ELSE elapsed <= hours

\* mutant: no allowance for a timestamp in the future
MediaFileWithinGraceWindow_NoSkew(modTime, hours, clock) ==
    IF hours <= 0 THEN FALSE
    ELSE Since(modTime, clock) < hours /\ Since(modTime, clock) >= 0

\* (m *MediaFile) WithinGraceWindow(hours); time.Duration(hours)*time.Hour
\* does not overflow for |hours| <= MaxDuration
MediaFileWithinGraceWindow(modTime, hours, clock) ==
    IF hours <= 0 THEN FALSE
    ELSE LET elapsed == Since(modTime, clock)
         IN  IF elapsed < 0 THEN TRUE
             ELSE elapsed < hours

\* mutant: the zero completion time is not special
TorrentWithinGraceWindow_NoZero(completedOn, hours, clock) ==
    IF hours <= 0 THEN FALSE
    ELSE LET elapsed == Since(completedOn, clock)
         IN  IF elapsed < 0 THEN TRUE
             ELSE elapsed < hours

\* (t *Torrent) WithinGraceWindow(hours)
TorrentWithinGraceWindow(completedOn, hours, clock) ==
    IF hours <= 0 THEN FALSE
    ELSE IF IsZero(completedOn) THEN TRUE
    ELSE LET elapsed == Since(completedOn, clock)
         IN  IF elapsed < 0 THEN TRUE
             ELSE elapsed < hours

\* mutant: only a series identifier makes a record known
IsKnown_SeriesOnly(af) == af.Path # <<>> /\ af.SeriesID > 0

\* (af *ArrFile) IsKnown(), on a non-nil record
IsKnown(af) == af.Path # <<>> /\ (af.SeriesID > 0 \/ af.MovieID > 0)

defaultSuspiciousExtensions ==
    << <<".","e","x","e">>, <<".","m","s","i">>, <<".","b","a","t">>,
       <<".","c","m","d">>, <<".","c","o","m">>, <<".","s","c","r">>,
       <<".","p","s","1">>, <<".","v","b","s">>, <<".","j","s">>,
       <<".","j","a","r">>, <<".","d","l","l">>, <<".","s","y","s">>,
       <<".","r","e","g">>, <<".","l","n","k">>, <<".","p","i","f">>,
       <<".","a","p","k">>, <<".","d","m","g">>, <<".","p","k","g">>,
       <<".","i","s","o">>, <<".","z","i","p">>, <<".","r","a","r">>,
       <<".","7","z">>, <<".","t","a","r">>, <<".","g","z">> >>

InList(x, list) == \E i \in 1..Len(list) : list[i] = x

\* mutant: the archive types are listed without their leading dot
isArchiveExtension_NoDot(ext) ==
    InList(ext, << <<"z","i","p">>, <<"r","a","r">>, <<"7","z">>,
                   <<"t","a","r">>, <<"g","z">>, <<"i","s","o">> >>)

isArchiveExtension(ext) ==
    InList(ext, << <<".","z","i","p">>, <<".","r","a","r">>, <<".","7","z">>,
                   <<".","t","a","r">>, <<".","g","z">>, <<".","i","s","o">> >>)

isMediaExtension(ext) ==
    InList(ToLower(ext),
           << <<"m","k","v">>, <<"m","p","4">>, <<"a","v","i">>, <<"m","o","v">>,
              <<"w","m","v">>, <<"f","l","v">>, <<"w","e","b","m">>, <<"m","4","v">>,
              <<"m","p","g">>, <<"m","p","e","g">> >>)

NotSuspicious == [suspicious |-> FALSE, reason |-> ""]

\* IsSuspicious(path, extensions, flagArchives) (bool, string)
IsSuspicious(path, extensions, flagArchives) ==
    LET exts == IF Len(extensions) = 0 THEN defaultSuspiciousExtensions ELSE extensions
        ext == ToLower(Ext(path))
        parts == Split(Base(path), ".")
        lastExt == <<".">> \o ToLower(parts[Len(parts)])
    IN  IF ext = <<>> THEN NotSuspicious
        ELSE IF InList(ext, exts)
             THEN IF isArchiveExtension(ext) /\ ~flagArchives
                  THEN NotSuspicious
                  ELSE [suspicious |-> TRUE, reason |-> "suspicious_extension"]
        ELSE IF Len(parts) > 2
                /\ \E i \in 1..Len(exts) :
                      lastExt = exts[i] /\ ~isMediaExtension(parts[Len(parts) - 1])
             THEN [suspicious |-> TRUE, reason |-> "double_extension"]
        ELSE NotSuspicious

\* Mode & mask # 0 for a single-bit mask
HasBit(mode, mask) == (mode \div mask) % 2 = 1

\* (fp *FilePermissions) HasSGID(): Mode & 02000
HasSGID(fp) == HasBit(fp.Mode, 1024)

\* (fp *FilePermissions) GroupWritable(): Mode & 0020
\* mutant: the write bit of others is tested instead of the group's
GroupWritable_OtherBit(fp) == HasBit(fp.Mode, 2)

GroupWritable(fp) == HasBit(fp.Mode, 16)

(***************************************************************************)
(* internal/utils                                                          *)
(***************************************************************************)

\* mutant: the subtitle extensions are listed without their leading dot
IsSubtitleFile_NoDot(path) ==
    InList(ToLower(Ext(path)),
           << <<"s","r","t">>, <<"a","s","s">>, <<"s","s","a">>, <<"v","t","t">>,
              <<"s","u","b">>, <<"i","d","x">>, <<"p","g","s">> >>)

IsSubtitleFile(path) ==
    InList(ToLower(Ext(path)),
           << <<".","s","r","t">>, <<".","a","s","s">>, <<".","s","s","a">>,
              <<".","v","t","t">>, <<".","s","u","b">>, <<".","i","d","x">>,
              <<".","p","g","s">> >>)

\* NormalizePath(path, mappings): mappings is a Go map, here a function from
\* the external prefix to the local one.  The range loop visits the entries
\* in an unspecified order and stops at the first prefix that matches, so the
\* call can return the rewrite through any matching entry.
NormalizePathOutcomes(path, mappings) ==
    LET normalized == Clean(path)
        matching == {api \in DOMAIN mappings : HasPrefix(normalized, Clean(api))}
    IN  IF matching = {} THEN {normalized}
        ELSE {Join(mappings[api], TrimPrefix(normalized, Clean(api))) : api \in matching}

\* NormalizePathReverse(path, mappings): the same loop with the local prefix
\* matched and the external one substituted
NormalizePathReverseOutcomes(path, mappings) ==
    LET normalized == Clean(path)
        matching == {api \in DOMAIN mappings : HasPrefix(normalized, Clean(mappings[api]))}
    IN  IF matching = {} THEN {normalized}
        ELSE {Join(api, TrimPrefix(normalized, Clean(mappings[api]))) : api \in matching}


(***************************************************************************)
(* internal/analysis                                                       *)
(***************************************************************************)

\* filepath.Match for the patterns used here: literal characters and '*',
\* which matches any run of non-separator characters
RECURSIVE Match(_, _)
Match(pattern, name) ==
    IF pattern = <<>> THEN name = <<>>
    ELSE IF Head(pattern) = "*"
         THEN Match(Tail(pattern), name)
              \/ (name # <<>> /\ Head(name) # "/" /\ Match(pattern, Tail(name)))
         ELSE name # <<>> /\ Head(name) = Head(pattern)
              /\ Match(Tail(pattern), Tail(name))

metadataPatterns ==
    << <<"*","-","t","h","u","m","b",".","j","p","g">>,
       <<"*","-","t","h","u","m","b",".","p","n","g">>,
       <<"p","o","s","t","e","r",".","j","p","g">>,
       <<"p","o","s","t","e","r",".","p","n","g">>,
       <<"b","a","c","k","d","r","o","p",".","j","p","g">>,
       <<"b","a","c","k","d","r","o","p",".","p","n","g">>,
       <<"f","o","l","d","e","r",".","j","p","g">>,
       <<"f","o","l","d","e","r",".","p","n","g">>,
       <<"l","o","g","o",".","p","n","g">>,
       <<"l","o","g","o",".","s","v","g">>,
       <<"s","e","a","s","o","n","*","-","p","o","s","t","e","r",".","j","p","g">>,
       <<"s","e","a","s","o","n","*","-","p","o","s","t","e","r",".","p","n","g">>,
       <<"b","a","n","n","e","r",".","j","p","g">>,
       <<"l","a","n","d","s","c","a","p","e",".","j","p","g">>,
       <<"c","l","e","a","r","l","o","g","o",".","p","n","g">>,
       <<"*",".","n","f","o">>,
       <<"*",".","t","o","r","r","e","n","t">> >>

\* mutant: the patterns are matched against the whole path
IsMetadataFile_FullPath(path) ==
    \E i \in 1..Len(metadataPatterns) : Match(metadataPatterns[i], path)

IsMetadataFile(path) ==
    \E i \in 1..Len(metadataPatterns) : Match(metadataPatterns[i], Base(path))

\* a nil *models.ArrFile; a non-nil pointer is modelled by the record it points to
Nil == [nil |-> TRUE]

\* mutant: the hardlink test is inverted
ClassifyMedia_SwapLinked(media, arrFile, graceHours, clock) ==
    LET hours == IF graceHours <= 0 THEN 0 ELSE graceHours
    IN  IF MediaFileWithinGraceWindow(media.ModTime, hours, clock)
        THEN [classification |-> "", shouldInclude |-> FALSE]
        ELSE IF arrFile = Nil
        THEN [classification |-> "orphan", shouldInclude |-> TRUE]
        ELSE IF ~media.IsHardlinked
        THEN [classification |-> "healthy", shouldInclude |-> TRUE]
        ELSE [classification |-> "at_risk", shouldInclude |-> TRUE]

\* mutant: a file within grace is returned as included
ClassifyMedia_IncludeInGrace(media, arrFile, graceHours, clock) ==
    LET hours == IF graceHours <= 0 THEN 0 ELSE graceHours
    IN  IF MediaFileWithinGraceWindow(media.ModTime, hours, clock)
        THEN [classification |-> "", shouldInclude |-> TRUE]
        ELSE IF arrFile = Nil
        THEN [classification |-> "orphan", shouldInclude |-> TRUE]
        ELSE IF media.IsHardlinked
        THEN [classification |-> "healthy", shouldInclude |-> TRUE]
        ELSE [classification |-> "at_risk", shouldInclude |-> TRUE]

\* ClassifyMedia(media, arrFile, graceHours) (MediaClassification, bool)
ClassifyMedia(media, arrFile, graceHours, clock) ==
    LET hours == IF graceHours <= 0 THEN 0 ELSE graceHours
    IN  IF MediaFileWithinGraceWindow(media.ModTime, hours, clock)
        THEN [classification |-> "", shouldInclude |-> FALSE]
        ELSE IF arrFile = Nil
        THEN [classification |-> "orphan", shouldInclude |-> TRUE]
        ELSE IF media.IsHardlinked
        THEN [classification |-> "healthy", shouldInclude |-> TRUE]
        ELSE [classification |-> "at_risk", shouldInclude |-> TRUE]

\* mutant: a file without a record gets the TV manager's grace hours
getGraceHours_DefaultForUnknown(e, arrFile) ==
    IF arrFile = Nil THEN e.sonarrGraceHours
    ELSE IF arrFile.SeriesID > 0 THEN e.sonarrGraceHours
    ELSE IF arrFile.MovieID > 0 THEN e.radarrGraceHours
    ELSE 0

\* (e *Engine) getGraceHours(arrFile)
getGraceHours(e, arrFile) ==
    IF arrFile = Nil THEN 0
    ELSE IF arrFile.SeriesID > 0 THEN e.sonarrGraceHours
    ELSE IF arrFile.MovieID > 0 THEN e.radarrGraceHours
    ELSE 0

\* (e *Engine) normalizePath(p)
normalizePath(p) == ToLower(Clean(p))

\* a Go map[string]*ArrFile is a function from its keys; a missing key reads nil
EmptyMap == [k \in {} |-> Nil]

MapGet(m, k) == IF k \in DOMAIN m THEN m[k] ELSE Nil

RECURSIVE InsertRecords(_, _, _, _)
InsertRecords(lookup, files, normalized, i) ==
    IF i > Len(files) THEN lookup
    ELSE InsertRecords((normalizePath(normalized[i]) :> files[i]) @@ lookup,
                       files, normalized, i + 1)

\* mutant: the movie manager's records are inserted first
buildArrLookup_RadarrFirst(sonarrFiles, radarrFiles, sn, rn) ==
    InsertRecords(InsertRecords(EmptyMap, radarrFiles, rn, 1), sonarrFiles, sn, 1)

\* (e *Engine) buildArrLookup(sonarrFiles, radarrFiles); sn[i] and rn[i] are
\* what utils.NormalizePath returned for the i-th record of each manager
buildArrLookup(sonarrFiles, radarrFiles, sn, rn) ==
    InsertRecords(InsertRecords(EmptyMap, sonarrFiles, sn, 1), radarrFiles, rn, 1)

\* isHardlinkedWithDetails(path): disk maps each path that syscall.Stat finds
\* to its link count; a stat error reads as not hardlinked
isHardlinkedWithDetails(path, disk) == path \in DOMAIN disk /\ disk[path] > 1

\* mutant: only the first file of the torrent is examined
hasMatchingMediaFile_FirstFileOnly(t, mediaLookup, tn, disk) ==
    /\ Len(t.Files) > 0
    /\ \/ isHardlinkedWithDetails(Join(t.SavePath, t.Files[1]), disk)
       \/ normalizePath(tn[1]) \in DOMAIN mediaLookup

\* mutant: a torrent without files counts as matched
hasMatchingMediaFile_EmptyMatches(t, mediaLookup, tn, disk) ==
    \/ Len(t.Files) = 0
    \/ \E i \in 1..Len(t.Files) :
          \/ isHardlinkedWithDetails(Join(t.SavePath, t.Files[i]), disk)
          \/ normalizePath(tn[i]) \in DOMAIN mediaLookup

\* (e *Engine) hasMatchingMediaFile(t, mediaLookup); tn[i] is what
\* utils.NormalizePath returned for the i-th file of the torrent
hasMatchingMediaFile(t, mediaLookup, tn, disk) ==
    \E i \in 1..Len(t.Files) :
        \/ isHardlinkedWithDetails(Join(t.SavePath, t.Files[i]), disk)
        \/ normalizePath(tn[i]) \in DOMAIN mediaLookup

shouldSkip(path, skipPaths) ==
    \E i \in 1..Len(skipPaths) : HasPrefix(path, skipPaths[i])

getReason(class) ==
    CASE class = "healthy" -> "Tracked by Arr and hardlinked to torrent"
      [] class = "at_risk" -> "Tracked by Arr but NOT hardlinked (no torrent protection)"
      [] class = "orphan" -> "Not tracked by Arr (outside grace window)"
      [] OTHER -> "Unknown classification"

\* mutant: the superuser is always a valid owner
isValidOwner_RootAllowed(e, uid) ==
    uid = 0 \/ \E i \in 1..Len(e.allowedUIDs) : e.allowedUIDs[i] = uid

\* (e *Engine) isValidOwner(uid)
isValidOwner(e, uid) == \E i \in 1..Len(e.allowedUIDs) : e.allowedUIDs[i] = uid

\* (e *Engine) shouldHaveSGID(path)
shouldHaveSGID(e, path) == \E i \in 1..Len(e.sgidPaths) : HasPrefix(path, e.sgidPaths[i])

Issue(file, kind, severity) == [Path |-> file.Path, Issue |-> kind, Severity |-> severity]

\* (e *Engine) auditPermissions(file): the issues in the order they are appended
auditPermissions(e, file) ==
    IF IsMetadataFile(file.Path) THEN <<>>
    ELSE (IF ~isValidOwner(e, file.OwnerUID)
          THEN IF file.IsDirectory /\ file.OwnerUID = 0
               THEN <<Issue(file, "wrong_owner", "warning")>>
               ELSE <<Issue(file, "wrong_owner", "error")>>
          ELSE <<>>)
         \o (IF file.GroupGID # e.expectedGroupGID
             THEN <<Issue(file, "wrong_group", "error")>> ELSE <<>>)
         \o (IF ~GroupWritable(file)
             THEN <<Issue(file, "not_group_writable", "warning")>> ELSE <<>>)
         \o (IF file.IsDirectory /\ shouldHaveSGID(e, file.Path) /\ ~HasSGID(file)
             THEN <<Issue(file, "missing_sgid", "warning")>> ELSE <<>>)

EmptyResult ==
    [ClassifiedMedia |-> <<>>, SuspiciousFiles |-> <<>>, UnlinkedTorrents |-> <<>>,
     PermissionIssues |-> <<>>,
     Summary |-> [TotalFiles |-> 0, HealthyCount |-> 0, AtRiskCount |-> 0,
                  OrphanCount |-> 0, SuspiciousCount |-> 0,
                  PermissionErrors |-> 0, PermissionWarnings |-> 0]]

\* Analyze, the body of the loop over mediaFiles
AnalyzeMedia(e, result, media, arrLookup, clock) ==
    IF shouldSkip(media.Path, e.skipPaths) THEN result
    ELSE
    LET arrFile == MapGet(arrLookup, normalizePath(media.Path))
        graceHours == getGraceHours(e, arrFile)
        c == ClassifyMedia(media, arrFile, graceHours, clock)
        arrSource == IF arrFile # Nil /\ arrFile.SeriesID > 0 THEN "sonarr"
                     ELSE IF arrFile # Nil /\ arrFile.MovieID > 0 THEN "radarr"
                     ELSE ""
        entry == [File |-> media,
                  KnownToArr |-> arrFile # Nil /\ IsKnown(arrFile),
                  ArrSource |-> arrSource,
                  Classification |-> c.classification,
                  Reason |-> getReason(c.classification)]
        counted ==
            [result EXCEPT
                !.ClassifiedMedia = Append(@, entry),
                !.Summary.HealthyCount =
                    IF c.classification = "healthy" THEN @ + 1 ELSE @,
                !.Summary.AtRiskCount =
                    IF c.classification = "at_risk" THEN @ + 1 ELSE @,
                !.Summary.OrphanCount =
                    IF c.classification = "orphan" THEN @ + 1 ELSE @,
                !.Summary.TotalFiles = @ + 1]
        sus == IsSuspicious(media.Path, e.suspiciousExtensions, e.flagArchives)
    IN  IF ~c.shouldInclude THEN result
        ELSE IF c.classification = "orphan" /\ IsSubtitleFile(media.Path) THEN result
        ELSE IF sus.suspicious
        THEN [counted EXCEPT
                !.SuspiciousFiles = Append(@, [Path |-> media.Path, Reason |-> sus.reason]),
                !.Summary.SuspiciousCount = @ + 1]
        ELSE counted

\* mutant: the torrent's state is not looked at
AnalyzeTorrent_AnyState(e, result, t, arrLookup, tn, disk, clock) ==
    IF /\ ~TorrentWithinGraceWindow(t.CompletedOn, e.qbittorrentGraceHours, clock)
       /\ ~hasMatchingMediaFile(t, arrLookup, tn, disk)
    THEN [result EXCEPT !.UnlinkedTorrents = Append(@, t)]
    ELSE result

\* Analyze, the body of the loop over torrents
AnalyzeTorrent(e, result, t, arrLookup, tn, disk, clock) ==
    IF /\ t.State = "completed"
       /\ ~TorrentWithinGraceWindow(t.CompletedOn, e.qbittorrentGraceHours, clock)
       /\ ~hasMatchingMediaFile(t, arrLookup, tn, disk)
    THEN [result EXCEPT !.UnlinkedTorrents = Append(@, t)]
    ELSE result

\* mutant: every issue is counted, whatever its severity
CountSeverity_Any(issues, isError) == Len(issues)

CountSeverity(issues, isError) ==
    Cardinality({i \in 1..Len(issues) : (issues[i].Severity = "error") = isError})

\* Analyze, the body of the loop over permissions
AnalyzePermission(e, result, perm) ==
    IF shouldSkip(perm.Path, e.skipPaths) THEN result
    ELSE LET issues == auditPermissions(e, perm)
         IN  [result EXCEPT
                !.PermissionIssues = @ \o issues,
                !.Summary.PermissionErrors = @ + CountSeverity(issues, TRUE),
                !.Summary.PermissionWarnings = @ + CountSeverity(issues, FALSE)]

RECURSIVE MediaLoop(_, _, _, _, _, _)
MediaLoop(e, result, mediaFiles, i, arrLookup, clock) ==
    IF i > Len(mediaFiles) THEN result
    ELSE MediaLoop(e, AnalyzeMedia(e, result, mediaFiles[i], arrLookup, clock),
                   mediaFiles, i + 1, arrLookup, clock)

RECURSIVE TorrentLoop(_, _, _, _, _, _)
TorrentLoop(e, result, torrents, i, arrLookup, w) ==
    IF i > Len(torrents) THEN result
    ELSE TorrentLoop(e, AnalyzeTorrent(e, result, torrents[i], arrLookup,
                                       w.tn[i], w.disk, w.clock),
                     torrents, i + 1, arrLookup, w)

RECURSIVE PermissionLoop(_, _, _, _)
PermissionLoop(e, result, permissions, i) ==
    IF i > Len(permissions) THEN result
    ELSE PermissionLoop(e, AnalyzePermission(e, result, permissions[i]),
                        permissions, i + 1)

\* (e *Engine) Analyze(mediaFiles, sonarrFiles, radarrFiles, torrents, permissions).
\* w is what the run reads besides its arguments: the clock, the link counts
\* on disk, and the entry each utils.NormalizePath call happened to pick.
Analyze(e, mediaFiles, sonarrFiles, radarrFiles, torrents, permissions, w) ==
    LET arrLookup == buildArrLookup(sonarrFiles, radarrFiles, w.sn, w.rn)
        r1 == MediaLoop(e, EmptyResult, mediaFiles, 1, arrLookup, w.clock)
        r2 == TorrentLoop(e, r1, torrents, 1, arrLookup, w)
    IN  IF e.permissionsEnabled THEN PermissionLoop(e, r2, permissions, 1) ELSE r2


(***************************************************************************)
(* the state: what one run of the engine is given, reads and returns, and  *)
(* the last call made to one of the pure functions                         *)
(***************************************************************************)

VARIABLES now, engine, mediaFiles, sonarrFiles, radarrFiles, torrents,
          permissions, disk, reads, result, pc, call, again, scan

runVars == <<engine, mediaFiles, sonarrFiles, radarrFiles, torrents,
             permissions, disk, reads, result, pc, again, scan>>

vars == <<now, engine, mediaFiles, sonarrFiles, radarrFiles, torrents,
          permissions, disk, reads, result, pc, call, again, scan>>

\* bounds of the model
MaxGrace == 2
MaxMedia == 2
Now0 == 17700000

\* the set of sequences that take their i-th element from sets[i]
RECURSIVE SeqsOver(_)
SeqsOver(sets) ==
    IF sets = <<>> THEN {<<>>}
    ELSE {<<x>> \o rest : x \in Head(sets), rest \in SeqsOver(Tail(sets))}

\* the files of the scanned tree, in the lexical order of filepath.WalkDir
MediaPaths ==
    << <<"/","m","/","A",".","m","k","v">>,
       <<"/","m","/","b",".","m","k","v",".","e","x","e">>,
       <<"/","m","/","c",".","s","r","t">>,
       <<"/","x","/","e",".","m","k","v">> >>

\* older than any grace window, one hour old, one hour in the future
ModTimes(clock) == {clock - MaxGrace - 1, clock - 1, clock + 1}

\* the records FilesystemCollector.Collect can build for the k-th path; the
\* file under the skip path is never examined, one record stands for it
MediaRecordsAt(k, clock) ==
    IF k = Len(MediaPaths)
    THEN {[Path |-> MediaPaths[k], ModTime |-> clock - 1, HardlinkCount |-> 1,
           IsHardlinked |-> FALSE]}
    ELSE {[Path |-> MediaPaths[k], ModTime |-> t, HardlinkCount |-> n,
           IsHardlinked |-> n > 1] : t \in ModTimes(clock), n \in {1, 2}}

RECURSIVE WalksFrom(_, _, _)
WalksFrom(k, n, clock) ==
    IF n = 0 \/ k > Len(MediaPaths) THEN {<<>>}
    ELSE WalksFrom(k + 1, n, clock)
         \cup {<<r>> \o rest : r \in MediaRecordsAt(k, clock),
                               rest \in WalksFrom(k + 1, n - 1, clock)}

MediaLists(clock) == WalksFrom(1, MaxMedia, clock)

\* records as SonarrCollector.Collect builds them: SeriesID from the series
SonarrA == [Path |-> <<"/","m","/","a",".","m","k","v">>, SeriesID |-> 1, MovieID |-> 0]
SonarrC == [Path |-> <<"/","m","/","c",".","s","r","t">>, SeriesID |-> 1, MovieID |-> 0]

\* records as RadarrCollector.Collect builds them: MovieID from the movie
RadarrA == [Path |-> <<"/","d","a","t","a","/","A",".","m","k","v">>,
            SeriesID |-> 0, MovieID |-> 1]
RadarrB == [Path |-> <<"/","d","a","t","a","/","b",".","m","k","v",".","e","x","e">>,
            SeriesID |-> 0, MovieID |-> 2]

SonarrLists == {<<>>, <<SonarrA>>, <<SonarrC>>, <<SonarrA, SonarrC>>}
RadarrLists == {<<>>, <<RadarrA>>, <<RadarrB>>, <<RadarrA, RadarrB>>}

TorrentList(clock) ==
    << [Hash |-> "t1", SavePath |-> <<"/","t">>, State |-> "completed",
        CompletedOn |-> clock - MaxGrace - 1, Files |-> << <<"f",".","m","k","v">> >>],
       [Hash |-> "t2", SavePath |-> <<"/","t">>, State |-> "completed",
        CompletedOn |-> clock - MaxGrace - 1, Files |-> << <<"g",".","m","k","v">> >>],
       [Hash |-> "t3", SavePath |-> <<"/","t">>, State |-> "downloading",
        CompletedOn |-> ZeroTime, Files |-> << <<"g",".","m","k","v">> >>] >>

DiskLinks == (<<"/","t","/","f",".","m","k","v">> :> 2)

\* mode 0775 = 509, mode 0664 = 436
PermissionList ==
    << [Path |-> <<"/","m">>, Mode |-> 509, OwnerUID |-> 0, GroupGID |-> 1000,
        IsDirectory |-> TRUE],
       [Path |-> <<"/","m","/","A",".","m","k","v">>, Mode |-> 436, OwnerUID |-> 1001,
        GroupGID |-> 1000, IsDirectory |-> FALSE],
       [Path |-> <<"/","m","/","p","o","s","t","e","r",".","j","p","g">>, Mode |-> 420,
        OwnerUID |-> 0, GroupGID |-> 0, IsDirectory |-> FALSE] >>

\* NewEngine(...): the engine's fields
NewEngine(sonarrGrace, radarrGrace, qbGrace, suspiciousExts, flagArchives) ==
    [sonarrGraceHours |-> sonarrGrace,
     radarrGraceHours |-> radarrGrace,
     qbittorrentGraceHours |-> qbGrace,
     suspiciousExtensions |-> suspiciousExts,
     flagArchives |-> flagArchives,
     permissionsEnabled |-> TRUE,
     expectedGroupGID |-> 1000,
     allowedUIDs |-> <<1001, 1002>>,
     sgidPaths |-> << <<"/","m">> >>,
     skipPaths |-> << <<"/","x">> >>,
     nonstandardSeverity |-> "warning",
     pathMappings |-> (<<"/","d","a","t","a">> :> <<"/","m">>)]

\* the (TV, movie) grace hours the engine is built with
GracePairs ==
    {<<0, MaxGrace>>, <<MaxGrace, -1>>, <<MaxGrace, MaxGrace>>, <<MaxGrace - 1, MaxGrace>>}

Engines == {NewEngine(g[1], g[2], MaxGrace, <<>>, FALSE) : g \in GracePairs}

NoCall == [op |-> "none"]

\* nothing read yet
NoReads == [sn |-> <<>>, rn |-> <<>>, tn |-> <<>>, disk |-> <<>>, clock |-> ZeroTime]

\* no second run of the engine yet
NoRun == [done |-> FALSE]

\* runScan's own bookkeeping: the exit status (-1 while running), the
\* configuration as the file has it, the services with a configured URL, the
\* collectors that have returned, those whose context was cancelled by the
\* time they returned, those that returned an error, the failures
\* logged as a warning, whether the signal handler has cancelled the
\* context, the number of engine.Analyze calls, and whether the report was
\* formatted and the notification sent
ScanStart ==
    [exit |-> -1, config |-> [loaded |-> FALSE], configured |-> {}, returned |-> {},
     interrupted |-> {}, failed |-> {}, warned |-> {},
     cancelled |-> FALSE, analyzeCalls |-> 0, reported |-> FALSE, notified |-> FALSE]

Init ==
    /\ now = Now0
    /\ engine \in Engines
    /\ mediaFiles \in MediaLists(now)
    /\ sonarrFiles \in SonarrLists
    /\ radarrFiles \in RadarrLists
    /\ torrents = TorrentList(now)
    /\ permissions = PermissionList
    /\ disk = DiskLinks
    /\ reads = NoReads
    /\ result = EmptyResult
    /\ pc = "collected"
    /\ call = NoCall
    /\ again = NoRun
    /\ scan = ScanStart

PathsOf(files) == [i \in 1..Len(files) |-> files[i].Path]

\* what the utils.NormalizePath calls of one run can return
NormalizeChoices(paths, mappings) ==
    SeqsOver([i \in 1..Len(paths) |-> NormalizePathOutcomes(paths[i], mappings)])

TorrentNormalizeChoices(ts, mappings) ==
    SeqsOver([i \in 1..Len(ts) |->
                NormalizeChoices([j \in 1..Len(ts[i].Files) |->
                                    Join(ts[i].SavePath, ts[i].Files[j])], mappings)])

\* mutant: the engine is also invoked while the download client's collection
\* is still outstanding
RunAnalyze_Early ==
    /\ pc \in {"qb", "collected"}
    /\ \E sn \in NormalizeChoices(PathsOf(sonarrFiles), engine.pathMappings),
          rn \in NormalizeChoices(PathsOf(radarrFiles), engine.pathMappings),
          tn \in TorrentNormalizeChoices(torrents, engine.pathMappings) :
            /\ reads' = [sn |-> sn, rn |-> rn, tn |-> tn, disk |-> disk, clock |-> now]
            /\ result' = Analyze(engine, mediaFiles, sonarrFiles, radarrFiles, torrents,
                                 permissions, reads')
    /\ pc' = "analyzed"
    /\ scan' = [scan EXCEPT !.analyzeCalls = @ + 1]
    /\ UNCHANGED <<now, engine, mediaFiles, sonarrFiles, radarrFiles, torrents,
                   permissions, disk, call, again>>

\* engine.Analyze(mediaFiles, sonarrFiles, radarrFiles, torrents, permissions)
RunAnalyze ==
    /\ pc = "collected"
    /\ \E sn \in NormalizeChoices(PathsOf(sonarrFiles), engine.pathMappings),
          rn \in NormalizeChoices(PathsOf(radarrFiles), engine.pathMappings),
          tn \in TorrentNormalizeChoices(torrents, engine.pathMappings) :
            /\ reads' = [sn |-> sn, rn |-> rn, tn |-> tn, disk |-> disk, clock |-> now]
            /\ result' = Analyze(engine, mediaFiles, sonarrFiles, radarrFiles, torrents,
                                 permissions, reads')
    /\ pc' = "analyzed"
    /\ scan' = [scan EXCEPT !.analyzeCalls = @ + 1]
    /\ UNCHANGED <<now, engine, mediaFiles, sonarrFiles, radarrFiles, torrents,
                   permissions, disk, call, again>>

Next == RunAnalyze

Spec == Init /\ [][Next]_vars


(***************************************************************************)
(* the engine over varied torrents, link counts, path mappings and         *)
(* permission auditing, run a second time over the same collections        *)
(***************************************************************************)

MaxTorrents == 3

\* a movie-manager record under two overlapping external prefixes
RadarrM == [Path |-> <<"/","d","a","t","a","/","m","v","/","A",".","m","k","v">>, SeriesID |-> 0, MovieID |-> 1]

SingleMapping == (<<"/","d","a","t","a","/","m","v">> :> <<"/","m">>)

\* /data/mv -> /m and /data -> /srv: both prefixes match a path under /data/mv
OverlappingMappings == (<<"/","d","a","t","a","/","m","v">> :> <<"/","m">>) @@ (<<"/","d","a","t","a">> :> <<"/","s","r","v">>)

\* torrents as QBCollector.Collect builds them
TorrentPool(clock) ==
    << [Hash |-> "t1", SavePath |-> <<"/","t">>, State |-> "completed",
        CompletedOn |-> clock - MaxGrace - 1, Files |-> << <<"g",".","m","k","v">>, <<"f",".","m","k","v">> >>],
       [Hash |-> "t2", SavePath |-> <<"/","t">>, State |-> "completed",
        CompletedOn |-> clock - MaxGrace - 1, Files |-> << <<"g",".","m","k","v">> >>],
       [Hash |-> "t3", SavePath |-> <<"/","t">>, State |-> "downloading",
        CompletedOn |-> ZeroTime, Files |-> << <<"g",".","m","k","v">> >>],
       [Hash |-> "t4", SavePath |-> <<"/","d","a","t","a","/","m","v">>, State |-> "completed",
        CompletedOn |-> clock - MaxGrace - 1, Files |-> << <<"A",".","m","k","v">> >>],
       [Hash |-> "t5", SavePath |-> <<"/","t">>, State |-> "completed",
        CompletedOn |-> clock - 1, Files |-> << <<"g",".","m","k","v">> >>],
       [Hash |-> "t6", SavePath |-> <<"/","t">>, State |-> "completed",
        CompletedOn |-> clock - MaxGrace - 1, Files |-> <<>>] >>

\* torrents in the other states, each with a completion time older than the
\* grace window and a file that is linked nowhere
IdleTorrents(clock) ==
    << [Hash |-> "t7", SavePath |-> <<"/","t">>, State |-> "checking",
        CompletedOn |-> clock - MaxGrace - 1, Files |-> << <<"g",".","m","k","v">> >>],
       [Hash |-> "t8", SavePath |-> <<"/","t">>, State |-> "paused",
        CompletedOn |-> clock - MaxGrace - 1, Files |-> << <<"g",".","m","k","v">> >>],
       [Hash |-> "t9", SavePath |-> <<"/","t">>, State |-> "stalled",
        CompletedOn |-> clock - MaxGrace - 1, Files |-> << <<"g",".","m","k","v">> >>] >>

\* the sublists of pool[k..] of at most n elements, in the pool's order
RECURSIVE SublistsFrom(_, _, _)
SublistsFrom(pool, k, n) ==
    IF n = 0 \/ k > Len(pool) THEN {<<>>}
    ELSE SublistsFrom(pool, k + 1, n)
         \cup {<<pool[k]>> \o rest : rest \in SublistsFrom(pool, k + 1, n - 1)}

TorrentLists(clock) ==
    SublistsFrom(TorrentPool(clock), 1, MaxTorrents) \cup {IdleTorrents(clock)}

\* no path has a second link
NoLinks == [p \in {} |-> 0]

\* mode 0755 = 493, mode 0644 = 420
AuditPermissionList ==
    PermissionList \o
    << [Path |-> <<"/","x","/","s","k","i","p",".","m","k","v">>, Mode |-> 420, OwnerUID |-> 0, GroupGID |-> 0,
        IsDirectory |-> FALSE],
       [Path |-> <<"/","m","/","d","i","r">>, Mode |-> 493, OwnerUID |-> 1003, GroupGID |-> 0,
        IsDirectory |-> TRUE] >>

AuditEngines ==
    {[NewEngine(MaxGrace, MaxGrace, qb, <<>>, FALSE) EXCEPT
         !.permissionsEnabled = enabled, !.pathMappings = mappings] :
        qb \in {-1, MaxGrace}, enabled \in BOOLEAN,
        mappings \in {SingleMapping, OverlappingMappings}}

InitAudit ==
    /\ now = Now0
    /\ engine \in AuditEngines
    /\ mediaFiles = << [Path |-> MediaPaths[1], ModTime |-> now - MaxGrace - 1,
                        HardlinkCount |-> 1, IsHardlinked |-> FALSE] >>
    /\ sonarrFiles \in {<<>>, <<SonarrA>>}
    /\ radarrFiles \in {<<>>, <<RadarrM>>}
    /\ torrents \in TorrentLists(now)
    /\ permissions = AuditPermissionList
    /\ disk \in {DiskLinks, NoLinks}
    /\ reads = NoReads
    /\ result = EmptyResult
    /\ pc = "collected"
    /\ call = NoCall
    /\ again = NoRun
    /\ scan = ScanStart

\* between two runs another process adds or removes the second link of a
\* downloaded file
Relink ==
    /\ pc = "analyzed"
    /\ disk' \in {DiskLinks, NoLinks} \ {disk}
    /\ pc' = "relinked"
    /\ UNCHANGED <<now, engine, mediaFiles, sonarrFiles, radarrFiles, torrents,
                   permissions, reads, result, call, again, scan>>

\* engine.Analyze called a second time with the same arguments at the same
\* clock reading
RunAgain ==
    /\ pc \in {"analyzed", "relinked"}
    /\ \E sn \in NormalizeChoices(PathsOf(sonarrFiles), engine.pathMappings),
          rn \in NormalizeChoices(PathsOf(radarrFiles), engine.pathMappings),
          tn \in TorrentNormalizeChoices(torrents, engine.pathMappings) :
            LET w == [sn |-> sn, rn |-> rn, tn |-> tn, disk |-> disk, clock |-> now]
            IN  again' = [done |-> TRUE, reads |-> w,
                          result |-> Analyze(engine, mediaFiles, sonarrFiles,
                                             radarrFiles, torrents, permissions, w)]
    /\ pc' = "rerun"
    /\ scan' = [scan EXCEPT !.analyzeCalls = @ + 1]
    /\ UNCHANGED <<now, engine, mediaFiles, sonarrFiles, radarrFiles, torrents,
                   permissions, disk, reads, result, call>>

NextAudit ==
    \/ RunAnalyze
    \/ Relink
    \/ RunAgain

SpecAudit == InitAudit /\ [][NextAudit]_vars


(***************************************************************************)
(* cmd/auditarr: runScan, from the configuration to the exit status        *)
(***************************************************************************)

\* config.DefaultSuspiciousExtensions()
DefaultSuspiciousExtensions ==
    << <<".","e","x","e">>, <<".","m","s","i">>, <<".","b","a","t">>,
       <<".","c","m","d">>, <<".","c","o","m">>, <<".","s","c","r">>,
       <<".","p","s","1">>, <<".","v","b","s">>, <<".","j","s">>,
       <<".","j","a","r">>, <<".","d","l","l">>, <<".","s","y","s">>,
       <<".","r","e","g">>, <<".","l","n","k">>, <<".","p","i","f">>,
       <<".","a","p","k">>, <<".","d","m","g">>, <<".","p","k","g">> >>

\* no configuration loaded yet
NoConfig == [loaded |-> FALSE]

Services == {"sonarr", "radarr", "qbittorrent"}

\* the configuration files the scan is run with, as toml.Unmarshal reads
\* them: [suspicious] extensions absent or written with dots, flag_archives,
\* [permissions] enabled && !*skipPermissions, and the grace hours
ScanConfigs ==
    {[sonarrGrace |-> MaxGrace, radarrGrace |-> MaxGrace, qbGrace |-> MaxGrace,
      extensions |-> exts, flagArchives |-> flag, permissionsEnabled |-> enabled]
        : exts \in {<<>>, << <<".","e","x","e">>, <<".","z","i","p">> >>},
          flag \in BOOLEAN, enabled \in BOOLEAN}

\* (c *Config) applyDefaults(): the grace hours and the extension list
applyDefaults(c) ==
    [c EXCEPT !.sonarrGrace = IF @ = 0 THEN 48 ELSE @,
              !.radarrGrace = IF @ = 0 THEN 48 ELSE @,
              !.qbGrace = IF @ = 0 THEN 24 ELSE @,
              !.extensions = IF Len(@) = 0 THEN DefaultSuspiciousExtensions ELSE @]

\* analysis.NewEngine(...) as runScan calls it on the loaded configuration
ScanEngine(cfg) ==
    [NewEngine(cfg.sonarrGrace, cfg.radarrGrace, cfg.qbGrace, cfg.extensions,
               cfg.flagArchives)
        EXCEPT !.permissionsEnabled = cfg.permissionsEnabled]

\* the media tree when every file is there: a movie without a second link,
\* a hardlinked file with two extensions and a hardlinked archive
ScanMedia(clock) ==
    << [Path |-> MediaPaths[1], ModTime |-> clock - MaxGrace - 1, HardlinkCount |-> 1,
        IsHardlinked |-> FALSE],
       [Path |-> MediaPaths[2], ModTime |-> clock - MaxGrace - 1, HardlinkCount |-> 2,
        IsHardlinked |-> TRUE],
       [Path |-> <<"/","m","/","d",".","z","i","p">>, ModTime |-> clock - MaxGrace - 1,
        HardlinkCount |-> 2, IsHardlinked |-> TRUE] >>

\* the media trees the scan is run on: every file, or the second file alone
ScanTrees(clock) == {ScanMedia(clock), SubSeq(ScanMedia(clock), 2, 2)}

\* what a collector returns: the collection, whether the error is non-nil,
\* and whether the context was cancelled during the call
Outcome(files, err, cancels) == [files |-> files, err |-> err, cancels |-> cancels]

\* FilesystemCollector.Collect: everything; nothing and an error (no media
\* root, or the context already cancelled); the files appended so far and an
\* error (the walk fails, or the context is cancelled during the walk)
FilesystemOutcomes(full, cancelled) ==
    IF cancelled THEN {Outcome(<<>>, TRUE, FALSE)}
    ELSE {Outcome(full, FALSE, FALSE), Outcome(<<>>, TRUE, FALSE),
          Outcome(SubSeq(full, 1, 1), TRUE, FALSE),
          Outcome(SubSeq(full, 1, 1), TRUE, TRUE)}

\* utils.CollectPermissions: everything, or nil and an error
PermissionOutcomes(full) ==
    {Outcome(full, FALSE, FALSE), Outcome(<<>>, TRUE, FALSE)}

\* SonarrCollector and RadarrCollector Collect: everything; nil and an error
\* (the first request fails, as it does once the context is cancelled); the
\* records appended so far and ctx.Err() (cancelled during the loop, before
\* its last iteration); the records appended so far and no error (the
\* request for the last item's files fails, because the server refuses it or
\* because the context is cancelled while it is in flight, and the item is
\* skipped)
NetworkOutcomes(full, cancelled) ==
    IF cancelled THEN {Outcome(<<>>, TRUE, FALSE)}
    ELSE {Outcome(full, FALSE, FALSE), Outcome(<<>>, TRUE, FALSE),
          Outcome(SubSeq(full, 1, 1), TRUE, TRUE)}
         \cup {Outcome(SubSeq(full, 1, 1), FALSE, c) : c \in BOOLEAN}

\* QBCollector.Collect: as above, but a torrent whose file request fails is
\* kept, with no files
QBOutcomes(full, cancelled) ==
    IF cancelled THEN {Outcome(<<>>, TRUE, FALSE)}
    ELSE {Outcome(full, FALSE, FALSE), Outcome(<<>>, TRUE, FALSE),
          Outcome(SubSeq(full, 1, 1), TRUE, TRUE)}
         \cup {Outcome([full EXCEPT ![Len(full)].Files = <<>>], FALSE, c)
                  : c \in BOOLEAN}

\* runScan after a collector returned: a warning is printed for an error;
\* a collector is interrupted if the context it was given was cancelled
\* before or during the call
Collected(s, name, o) ==
    [s EXCEPT !.returned = @ \cup {name},
              !.interrupted = IF name # "permissions" /\ (s.cancelled \/ o.cancels)
                              THEN @ \cup {name} ELSE @,
              !.failed = IF o.err THEN @ \cup {name} ELSE @,
              !.warned = IF o.err THEN @ \cup {name} ELSE @,
              !.cancelled = @ \/ o.cancels]

InitScan ==
    /\ now = Now0
    /\ engine = NoConfig
    /\ mediaFiles = <<>>
    /\ sonarrFiles = <<>>
    /\ radarrFiles = <<>>
    /\ torrents = <<>>
    /\ permissions = <<>>
    /\ disk = DiskLinks
    /\ reads = NoReads
    /\ result = EmptyResult
    /\ pc = "start"
    /\ call = NoCall
    /\ again = NoRun
    /\ scan = ScanStart

\* config.Load: an error (file missing, unreadable, not parsable, invalid)
\* prints and exits with status 1; otherwise the configuration is held
LoadConfig ==
    /\ pc = "start"
    /\ \/ /\ scan' = [scan EXCEPT !.exit = 1]
          /\ pc' = "exited"
          /\ UNCHANGED engine
       \/ \E cfg \in ScanConfigs, urls \in SUBSET Services :
             /\ engine' = ScanEngine(applyDefaults(cfg))
             /\ scan' = [scan EXCEPT !.configured = urls, !.config = cfg]
          /\ pc' = "fs"
    /\ UNCHANGED <<now, mediaFiles, sonarrFiles, radarrFiles, torrents, permissions,
                   disk, reads, result, call, again>>

\* the goroutine waiting on sigChan: SIGINT or SIGTERM cancels the context
Interrupt ==
    /\ pc \notin {"start", "exited"}
    /\ ~scan.cancelled
    /\ scan' = [scan EXCEPT !.cancelled = TRUE]
    /\ UNCHANGED <<now, engine, mediaFiles, sonarrFiles, radarrFiles, torrents,
                   permissions, disk, reads, result, pc, call, again>>

\* mediaFiles, err := fsCollector.Collect(ctx)
CollectFilesystem ==
    /\ pc = "fs"
    /\ \E tree \in ScanTrees(now) :
       \E o \in FilesystemOutcomes(tree, scan.cancelled) :
          /\ mediaFiles' = o.files
          /\ scan' = Collected(scan, "filesystem", o)
    /\ pc' = "perm"
    /\ UNCHANGED <<now, engine, sonarrFiles, radarrFiles, torrents, permissions,
                   disk, reads, result, call, again>>

\* permissions, err = utils.CollectPermissions(...), if auditing is enabled
CollectPermissions ==
    /\ pc = "perm"
    /\ IF engine.permissionsEnabled
       THEN \E o \in PermissionOutcomes(PermissionList) :
               /\ permissions' = o.files
               /\ scan' = Collected(scan, "permissions", o)
       ELSE UNCHANGED <<permissions, scan>>
    /\ pc' = "sonarr"
    /\ UNCHANGED <<now, engine, mediaFiles, sonarrFiles, radarrFiles, torrents,
                   disk, reads, result, call, again>>

\* sonarrFiles, err = sonarrCollector.Collect(ctx), if cfg.Sonarr.URL is set
CollectSonarr ==
    /\ pc = "sonarr"
    /\ IF "sonarr" \in scan.configured
       THEN \E o \in NetworkOutcomes(<<SonarrA, SonarrC>>, scan.cancelled) :
               /\ sonarrFiles' = o.files
               /\ scan' = Collected(scan, "sonarr", o)
       ELSE UNCHANGED <<sonarrFiles, scan>>
    /\ pc' = "radarr"
    /\ UNCHANGED <<now, engine, mediaFiles, radarrFiles, torrents, permissions,
                   disk, reads, result, call, again>>

\* radarrFiles, err = radarrCollector.Collect(ctx), if cfg.Radarr.URL is set
CollectRadarr ==
    /\ pc = "radarr"
    /\ IF "radarr" \in scan.configured
       THEN \E o \in NetworkOutcomes(<<RadarrA, RadarrB>>, scan.cancelled) :
               /\ radarrFiles' = o.files
               /\ scan' = Collected(scan, "radarr", o)
       ELSE UNCHANGED <<radarrFiles, scan>>
    /\ pc' = "qb"
    /\ UNCHANGED <<now, engine, mediaFiles, sonarrFiles, torrents, permissions,
                   disk, reads, result, call, again>>

\* torrents, err = qbCollector.Collect(ctx), if cfg.Qbittorrent.URL is set
CollectQBittorrent ==
    /\ pc = "qb"
    /\ IF "qbittorrent" \in scan.configured
       THEN \E o \in QBOutcomes(TorrentList(now), scan.cancelled) :
               /\ torrents' = o.files
               /\ scan' = Collected(scan, "qbittorrent", o)
       ELSE UNCHANGED <<torrents, scan>>
    /\ pc' = "collected"
    /\ UNCHANGED <<now, engine, mediaFiles, sonarrFiles, radarrFiles, permissions,
                   disk, reads, result, call, again>>

\* formatter.Format and formatter.WriteToFile: a failed write is a warning
WriteReport ==
    /\ pc = "analyzed"
    /\ \E failed \in BOOLEAN :
          scan' = [scan EXCEPT !.reported = TRUE,
                               !.warned = IF failed THEN @ \cup {"report"} ELSE @]
    /\ pc' = "reported"
    /\ UNCHANGED <<now, engine, mediaFiles, sonarrFiles, radarrFiles, torrents,
                   permissions, disk, reads, result, call, again>>

\* notifier.Send: a failure is a warning
SendNotification ==
    /\ pc = "reported"
    /\ \E failed \in BOOLEAN :
          scan' = [scan EXCEPT !.notified = TRUE,
                               !.warned = IF failed THEN @ \cup {"notification"} ELSE @]
    /\ pc' = "notified"
    /\ UNCHANGED <<now, engine, mediaFiles, sonarrFiles, radarrFiles, torrents,
                   permissions, disk, reads, result, call, again>>

\* mutant: a suspicious file or a permission issue also sets status 2
Exit_AnyFinding ==
    /\ pc = "notified"
    /\ scan' = [scan EXCEPT !.exit =
                  IF \/ result.Summary.OrphanCount > 0
                     \/ result.Summary.AtRiskCount > 0
                     \/ result.Summary.SuspiciousCount > 0
                     \/ Len(result.PermissionIssues) > 0
                  THEN 2 ELSE 0]
    /\ pc' = "exited"
    /\ UNCHANGED <<now, engine, mediaFiles, sonarrFiles, radarrFiles, torrents,
                   permissions, disk, reads, result, call, again>>

\* the end of runScan: os.Exit(2) if anything is orphaned or at risk
Exit ==
    /\ pc = "notified"
    /\ scan' = [scan EXCEPT !.exit =
                  IF result.Summary.OrphanCount > 0 \/ result.Summary.AtRiskCount > 0
                  THEN 2 ELSE 0]
    /\ pc' = "exited"
    /\ UNCHANGED <<now, engine, mediaFiles, sonarrFiles, radarrFiles, torrents,
                   permissions, disk, reads, result, call, again>>

NextScan ==
    \/ LoadConfig
    \/ Interrupt
    \/ CollectFilesystem
    \/ CollectPermissions
    \/ CollectSonarr
    \/ CollectRadarr
    \/ CollectQBittorrent
    \/ RunAnalyze
    \/ WriteReport
    \/ SendNotification
    \/ Exit

SpecScan == InitScan /\ [][NextScan]_vars


(***************************************************************************)
(* the pure functions, each applied to inputs drawn from bounded sets      *)
(***************************************************************************)

\* the zero time, and the instants from MaxGrace + 1 hours ago to one hour ahead
Times(clock) == {ZeroTime} \cup {clock - d : d \in -1..(MaxGrace + 1)}

Hours == -1..MaxGrace

ProbePaths ==
    { <<"/","m","/","m","o","v","i","e",".","m","k","v",".","e","x","e">>,
      <<"/","m","/","M","O","V","I","E",".","M","K","V",".","E","X","E">>,
      <<"/","m","/","m","o","v","i","e",".","m","k","v",".","z","i","p">>,
      <<"/","m","/","m","o","v","i","e",".","m","p","4",".","r","a","r">>,
      <<"/","m","/","a","r","c","h","i","v","e",".","z","i","p">>,
      <<"/","m","/","a",".","t","a","r",".","g","z">>,
      <<"/","m","/","s","h","o","w",".","S","0","1","E","0","1",".","m","k","v">>,
      <<"/","m","/","s","e","t","u","p",".","e","x","e">>,
      <<"/","m","/","n","o","t","e","s",".","t","x","t",".","e","x","e">>,
      <<"/","m",".","d","/","r","e","a","d","m","e">> }

\* no override (the built-in list), overrides with and without the leading dot
ExtensionLists ==
    { <<>>,
      << <<".","e","x","e">>, <<".","z","i","p">> >>,
      << <<".","e","x","e">> >>,
      << <<"e","x","e">>, <<"z","i","p">> >> }

InitFn ==
    /\ now \in {Now0, Now0 + 1}
    /\ engine = NewEngine(MaxGrace, MaxGrace, MaxGrace, <<>>, FALSE)
    /\ mediaFiles = <<>>
    /\ sonarrFiles = <<>>
    /\ radarrFiles = <<>>
    /\ torrents = <<>>
    /\ permissions = <<>>
    /\ disk = DiskLinks
    /\ reads = NoReads
    /\ result = EmptyResult
    /\ pc = "idle"
    /\ call = NoCall
    /\ again = NoRun
    /\ scan = ScanStart

CallMediaFileWithinGraceWindow ==
    /\ \E t \in Times(now), h \in Hours :
          call' = [op |-> "MediaFile.WithinGraceWindow", t |-> t, hours |-> h,
                   ret |-> MediaFileWithinGraceWindow(t, h, now)]
    /\ UNCHANGED <<now, runVars>>

CallTorrentWithinGraceWindow ==
    /\ \E t \in Times(now), h \in Hours :
          call' = [op |-> "Torrent.WithinGraceWindow", t |-> t, hours |-> h,
                   ret |-> TorrentWithinGraceWindow(t, h, now)]
    /\ UNCHANGED <<now, runVars>>

CallClassifyMedia ==
    /\ \E t \in Times(now), n \in {1, 2}, af \in {Nil, SonarrA, RadarrA}, h \in Hours :
          LET media == [Path |-> MediaPaths[1], ModTime |-> t,
                        HardlinkCount |-> n, IsHardlinked |-> n > 1]
          IN  call' = [op |-> "ClassifyMedia", media |-> media, arrFile |-> af,
                       graceHours |-> h, ret |-> ClassifyMedia(media, af, h, now)]
    /\ UNCHANGED <<now, runVars>>

CallIsSuspicious ==
    /\ \E path \in ProbePaths, exts \in ExtensionLists, flag \in BOOLEAN :
          call' = [op |-> "IsSuspicious", path |-> path, extensions |-> exts,
                   flagArchives |-> flag, ret |-> IsSuspicious(path, exts, flag)]
    /\ UNCHANGED <<now, runVars>>

\* permission records as utils.CollectPermissions builds them: a directory
\* and a file under the set-group-id prefix, a directory outside it, and a
\* metadata artifact
AuditPaths == {<<"/","m">>, <<"/","m","/","A",".","m","k","v">>, <<"/","s","r","v","/","d">>, <<"/","m","/","p","o","s","t","e","r",".","j","p","g">>}

\* the superuser, an allowed user, another user
OwnerUIDs == {0, 1001, 1003}

GroupGIDs == {1000, 0}

\* 0775, 0755, 02775, 02755
Modes == {509, 493, 1533, 1517}

CallAuditPermissions ==
    /\ \E path \in AuditPaths, uid \in OwnerUIDs, gid \in GroupGIDs, mode \in Modes,
          dir \in BOOLEAN :
          LET file == [Path |-> path, Mode |-> mode, OwnerUID |-> uid,
                       GroupGID |-> gid, IsDirectory |-> dir]
          IN  call' = [op |-> "auditPermissions", file |-> file,
                       ret |-> auditPermissions(engine, file)]
    /\ UNCHANGED <<now, runVars>>

\* no mapping, one mapping, two mappings whose external prefixes overlap, two
\* whose local prefixes overlap
NoMappings == [p \in {} |-> <<>>]

LocalOverlapMappings == (<<"/","d","a","t","a">> :> <<"/","m">>) @@ (<<"/","t","v">> :> <<"/","m","/","t","v">>)

MappingTables == {NoMappings, SingleMapping, OverlappingMappings, LocalOverlapMappings}

RemapPaths == {<<"/","d","a","t","a","/","m","v","/","A",".","m","k","v">>, <<"/","d","a","t","a","/","B",".","m","k","v">>, <<"/","o","t","h","e","r","/","C",".","m","k","v">>, <<"/","m","/","t","v","/","x",".","m","k","v">>, <<"/","m","/","A",".","m","k","v">>}

CallNormalizePath ==
    /\ \E path \in RemapPaths, mappings \in MappingTables :
          \E ret \in NormalizePathOutcomes(path, mappings) :
              call' = [op |-> "NormalizePath", path |-> path, mappings |-> mappings,
                       ret |-> ret]
    /\ UNCHANGED <<now, runVars>>

CallNormalizePathReverse ==
    /\ \E path \in RemapPaths, mappings \in MappingTables :
          \E ret \in NormalizePathReverseOutcomes(path, mappings) :
              call' = [op |-> "NormalizePathReverse", path |-> path,
                       mappings |-> mappings, ret |-> ret]
    /\ UNCHANGED <<now, runVars>>

\* mapQBState(state)
mapQBState(state) ==
    CASE state \in {"downloading", "metaDL", "allocating"} -> "downloading"
      [] state \in {"checkingUP", "checkingDL"} -> "checking"
      [] state \in {"uploading", "pausedUP"} -> "completed"
      [] state = "pausedDL" -> "paused"
      [] state \in {"stalledUP", "stalledDL"} -> "stalled"
      [] OTHER -> "completed"

\* the states the download client reports: those mapQBState lists and some
\* it does not
QBStates ==
    {"downloading", "metaDL", "allocating", "checkingUP", "checkingDL", "uploading",
     "pausedUP", "pausedDL", "stalledUP", "stalledDL", "queuedDL", "forcedDL",
     "error", "unknown"}

\* the torrent QBCollector.Collect builds from a client state and a completion
\* time, and whether the loop over torrents in Analyze reports it when none
\* of its files is linked anywhere
CallMapQBState ==
    /\ \E state \in QBStates, completedOn \in {ZeroTime, now - MaxGrace - 1} :
          LET t == [Hash |-> "q", SavePath |-> <<"/","t">>, State |-> mapQBState(state),
                    CompletedOn |-> completedOn, Files |-> << <<"g",".","m","k","v">> >>]
              r == AnalyzeTorrent(engine, EmptyResult, t, EmptyMap,
                                  << <<"/","t","/","g",".","m","k","v">> >>, NoLinks, now)
          IN  call' = [op |-> "mapQBState", state |-> state, completedOn |-> completedOn,
                       ret |-> t.State, unlinked |-> Len(r.UnlinkedTorrents) = 1]
    /\ UNCHANGED <<now, runVars>>

NextFn ==
    \/ CallMediaFileWithinGraceWindow
    \/ CallTorrentWithinGraceWindow
    \/ CallClassifyMedia
    \/ CallIsSuspicious
    \/ CallAuditPermissions
    \/ CallNormalizePath
    \/ CallNormalizePathReverse
    \/ CallMapQBState

SpecFn == InitFn /\ [][NextFn]_vars


(***************************************************************************)
(* the properties                                                          *)
(***************************************************************************)

\* the grace rule for a modification time: no grace for hours <= 0, a
\* timestamp in the future is within grace, otherwise the age decides
RefWithinGrace(t, hours, clock) == hours > 0 /\ (t > clock \/ clock - t < hours)

\* the record the merged lookup holds for a media file after the run: the
\* last movie-manager record with the file's key, else the last TV-manager
\* record with it, else none
LastMatch(files, normalized, m) ==
    LET hits == {i \in 1..Len(files) : normalizePath(normalized[i]) = normalizePath(m.Path)}
    IN  IF hits = {} THEN Nil
        ELSE files[CHOOSE i \in hits : \A j \in hits : j <= i]

MatchedRecord(m) ==
    IF LastMatch(radarrFiles, reads.rn, m) # Nil THEN LastMatch(radarrFiles, reads.rn, m)
    ELSE LastMatch(sonarrFiles, reads.sn, m)

ExpectedGrace(rec) ==
    IF rec = Nil THEN 0
    ELSE IF rec.SeriesID > 0 THEN engine.sonarrGraceHours
    ELSE engine.radarrGraceHours

Scanned(m) == \A i \in 1..Len(engine.skipPaths) : ~HasPrefix(m.Path, engine.skipPaths[i])

HasEntry(m) ==
    \E j \in 1..Len(result.ClassifiedMedia) : result.ClassifiedMedia[j].File = m

EntryClass(m, class) ==
    \E j \in 1..Len(result.ClassifiedMedia) :
        /\ result.ClassifiedMedia[j].File = m
        /\ result.ClassifiedMedia[j].Classification = class

ClassifiedCount ==
    result.Summary.HealthyCount + result.Summary.AtRiskCount + result.Summary.OrphanCount

\* C1: outside the grace window ClassifyMedia returns (orphan, true) without a
\* record, (healthy, true) with a record and a hardlinked file, (at_risk, true)
\* with a record and a file that is not hardlinked
C1_ClassifyOutsideGrace ==
    (call.op = "ClassifyMedia"
     /\ ~RefWithinGrace(call.media.ModTime, call.graceHours, now))
    => call.ret = [classification |->
                      IF call.arrFile = Nil THEN "orphan"
                      ELSE IF call.media.IsHardlinked THEN "healthy"
                      ELSE "at_risk",
                   shouldInclude |-> TRUE]

C1_Witness ==
    /\ call.op = "ClassifyMedia"
    /\ call.graceHours > 0
    /\ ~RefWithinGrace(call.media.ModTime, call.graceHours, now)
    /\ call.arrFile # Nil
    /\ ~call.media.IsHardlinked
    /\ call.ret.classification = "at_risk"

\* C2: a media file within its applicable grace window gets shouldInclude =
\* FALSE from ClassifyMedia whatever the record and the hardlink state, has no
\* ClassifiedMedia entry after Analyze, and is counted in none of
\* HealthyCount, AtRiskCount, OrphanCount
C2_WithinGraceExcluded ==
    pc = "analyzed" =>
        /\ \A i \in 1..Len(mediaFiles) :
              LET m == mediaFiles[i]
                  rec == MatchedRecord(m)
                  g == ExpectedGrace(rec)
              IN  RefWithinGrace(m.ModTime, g, now) =>
                    /\ \A af \in {Nil, rec}, linked \in BOOLEAN :
                          ~ClassifyMedia([m EXCEPT !.IsHardlinked = linked],
                                         af, g, now).shouldInclude
                    /\ ~HasEntry(m)
        /\ ClassifiedCount <=
              Cardinality({i \in 1..Len(mediaFiles) :
                  ~RefWithinGrace(mediaFiles[i].ModTime,
                                  ExpectedGrace(MatchedRecord(mediaFiles[i])), now)})

C2_Witness ==
    /\ pc = "analyzed"
    /\ Len(result.ClassifiedMedia) = 1
    /\ \E i \in 1..Len(mediaFiles) :
          /\ Scanned(mediaFiles[i])
          /\ MatchedRecord(mediaFiles[i]) # Nil
          /\ mediaFiles[i].IsHardlinked
          /\ RefWithinGrace(mediaFiles[i].ModTime,
                            ExpectedGrace(MatchedRecord(mediaFiles[i])), now)
          /\ ~HasEntry(mediaFiles[i])

\* C3: every entry classified healthy or at_risk is known to a manager
\* (KnownToArr, its record has a path and a series or movie identifier), every
\* entry classified orphan is known to none
C3_KnownMatchesClassification ==
    pc = "analyzed" =>
        \A j \in 1..Len(result.ClassifiedMedia) :
            LET entry == result.ClassifiedMedia[j]
                rec == MatchedRecord(entry.File)
            IN  /\ entry.Classification \in {"healthy", "at_risk"} =>
                      /\ entry.KnownToArr
                      /\ rec # Nil
                      /\ rec.Path # <<>>
                      /\ (rec.SeriesID > 0 \/ rec.MovieID > 0)
                /\ entry.Classification = "orphan" =>
                      /\ ~entry.KnownToArr
                      /\ rec = Nil

C3_Witness ==
    /\ pc = "analyzed"
    /\ \E j, k \in 1..Len(result.ClassifiedMedia) :
          /\ result.ClassifiedMedia[j].Classification = "at_risk"
          /\ result.ClassifiedMedia[j].KnownToArr
          /\ result.ClassifiedMedia[j].ArrSource = "radarr"
          /\ result.ClassifiedMedia[k].Classification = "orphan"
          /\ ~result.ClassifiedMedia[k].KnownToArr

C5_MediaGraceIsReference ==
    call.op = "MediaFile.WithinGraceWindow" =>
        call.ret = (IF call.hours <= 0 THEN FALSE
                    ELSE IF call.t > now THEN TRUE
                    ELSE now - call.t < call.hours)

C5_Witness ==
    /\ call.op = "MediaFile.WithinGraceWindow"
    /\ call.hours > 0
    /\ now - call.t = call.hours
    /\ call.ret = FALSE

\* C6 as stated: for a zero completion time Torrent.WithinGraceWindow returns
\* true whatever the grace hours, positive, zero or negative
C6_ZeroCompletionAlwaysWithin ==
    (call.op = "Torrent.WithinGraceWindow" /\ call.t = ZeroTime) => call.ret = TRUE

\* C6 amended: for a zero completion time Torrent.WithinGraceWindow returns
\* true for every positive grace hours, and false for grace hours <= 0
C6_ZeroCompletionWithinIffPositive ==
    (call.op = "Torrent.WithinGraceWindow" /\ call.t = ZeroTime)
    => call.ret = (call.hours > 0)

C6_Witness ==
    /\ call.op = "Torrent.WithinGraceWindow"
    /\ call.t = ZeroTime
    /\ call.hours > 0
    /\ call.ret = TRUE

\* C7 as stated: for every reference timestamp, the zero value included,
\* MediaFile.WithinGraceWindow and Torrent.WithinGraceWindow agree
C7_SameEvaluator ==
    call.op = "MediaFile.WithinGraceWindow" =>
        call.ret = TorrentWithinGraceWindow(call.t, call.hours, now)

\* C7 amended: the two agree for every non-zero reference timestamp and for
\* every grace hours <= 0; for the zero timestamp and positive grace hours the
\* torrent evaluator returns true and the media evaluator false
C7_SameEvaluatorExceptZero ==
    call.op = "MediaFile.WithinGraceWindow" =>
        IF call.t # ZeroTime \/ call.hours <= 0
        THEN call.ret = TorrentWithinGraceWindow(call.t, call.hours, now)
        ELSE call.ret = FALSE /\ TorrentWithinGraceWindow(call.t, call.hours, now)

C7_Witness ==
    /\ call.op = "MediaFile.WithinGraceWindow"
    /\ call.t > now
    /\ call.hours > 0
    /\ call.ret = TRUE
    /\ TorrentWithinGraceWindow(call.t, call.hours, now)

\* C8 as stated: every scanned media file with a suspicious name is in
\* SuspiciousFiles and counted in SuspiciousCount, also when the grace window
\* or the subtitle-orphan rule excludes it from classification
C8_SuspiciousIndependentOfClassification ==
    pc = "analyzed" =>
        LET sus == {i \in 1..Len(mediaFiles) :
                      /\ Scanned(mediaFiles[i])
                      /\ IsSuspicious(mediaFiles[i].Path, engine.suspiciousExtensions,
                                      engine.flagArchives).suspicious}
        IN  /\ \A i \in sus :
                  \E j \in 1..Len(result.SuspiciousFiles) :
                      result.SuspiciousFiles[j].Path = mediaFiles[i].Path
            /\ result.Summary.SuspiciousCount = Cardinality(sus)

\* C9 as stated: a filename whose final extension is in the suspicious set and
\* whose penultimate dot-separated segment is a media extension is reported
\* (true, double_extension), archive type or not, flag_archives or not
C9_DoubleExtensionFlagged ==
    call.op = "IsSuspicious" =>
        LET parts == Split(Base(call.path), ".")
            exts == IF call.extensions = <<>> THEN defaultSuspiciousExtensions
                    ELSE call.extensions
        IN  (/\ Len(parts) > 2
             /\ InList(<<".">> \o ToLower(parts[Len(parts)]), exts)
             /\ isMediaExtension(parts[Len(parts) - 1]))
            => call.ret = [suspicious |-> TRUE, reason |-> "double_extension"]

ArchiveTypes ==
    {<<"z","i","p">>, <<"r","a","r">>, <<"7","z">>, <<"t","a","r">>, <<"g","z">>,
     <<"i","s","o">>}

MediaTypes ==
    {<<"m","k","v">>, <<"m","p","4">>, <<"a","v","i">>, <<"m","o","v">>, <<"w","m","v">>,
     <<"f","l","v">>, <<"w","e","b","m">>, <<"m","4","v">>, <<"m","p","g">>,
     <<"m","p","e","g">>}

\* C10: a file whose extension is an archive type is flagged only if
\* flag_archives is true, and a media filename with extra dots is never flagged
C10_ArchivesOnlyWhenFlagged ==
    call.op = "IsSuspicious" =>
        LET parts == Split(Base(call.path), ".")
            last == ToLower(parts[Len(parts)])
        IN  Len(parts) >= 2 =>
              /\ (last \in ArchiveTypes /\ call.ret.suspicious) => call.flagArchives
              /\ last \in MediaTypes => ~call.ret.suspicious

C10_Witness ==
    /\ call.op = "IsSuspicious"
    /\ call.path = <<"/","m","/","a","r","c","h","i","v","e",".","z","i","p">>
    /\ call.flagArchives
    /\ call.ret = [suspicious |-> TRUE, reason |-> "suspicious_extension"]


\* the keys under which the run stored the managers' records
LookupKeys ==
    {normalizePath(reads.sn[i]) : i \in 1..Len(sonarrFiles)}
    \cup {normalizePath(reads.rn[i]) : i \in 1..Len(radarrFiles)}

\* the k-th torrent has a file that had a second link on disk, or whose
\* remapped path was a key of the lookup, when the run examined it
TorrentLinked(k) ==
    \E j \in 1..Len(torrents[k].Files) :
        \/ LET full == Join(torrents[k].SavePath, torrents[k].Files[j])
           IN  full \in DOMAIN reads.disk /\ reads.disk[full] > 1
        \/ normalizePath(reads.tn[k][j]) \in LookupKeys

InUnlinked(t) ==
    \E j \in 1..Len(result.UnlinkedTorrents) : result.UnlinkedTorrents[j].Hash = t.Hash

\* C11: a completed torrent outside its grace window is in UnlinkedTorrents
\* if and only if none of its files, joined with the save path, is hardlinked
\* on disk or present in the managers' lookup after remapping; so one with a
\* hardlinked file is excluded
C11_UnlinkedIffNoFileLinked ==
    pc # "collected" =>
        \A k \in 1..Len(torrents) :
            (/\ torrents[k].State = "completed"
             /\ ~TorrentWithinGraceWindow(torrents[k].CompletedOn,
                                          engine.qbittorrentGraceHours, now))
            => (InUnlinked(torrents[k]) <=> ~TorrentLinked(k))

C11_Witness ==
    /\ pc = "analyzed"
    /\ \E k, l, n \in 1..Len(torrents) :
          /\ torrents[k].Hash = "t1" /\ TorrentLinked(k) /\ ~InUnlinked(torrents[k])
          /\ torrents[l].Hash = "t2" /\ ~TorrentLinked(l) /\ InUnlinked(torrents[l])
          /\ torrents[n].Hash = "t4" /\ TorrentLinked(n) /\ ~InUnlinked(torrents[n])


SubtitleTypes ==
    {<<".","s","r","t">>, <<".","a","s","s">>, <<".","s","s","a">>, <<".","v","t","t">>,
     <<".","s","u","b">>, <<".","i","d","x">>, <<".","p","g","s">>}

\* C12: a subtitle file that classifies as orphan has no ClassifiedMedia entry
\* and is not counted in OrphanCount, which counts the other scanned files
\* without a record
C12_SubtitleOrphanFiltered ==
    pc = "analyzed" =>
        /\ \A i \in 1..Len(mediaFiles) :
              LET m == mediaFiles[i]
              IN  (/\ ToLower(Ext(m.Path)) \in SubtitleTypes
                   /\ ClassifyMedia(m, MatchedRecord(m),
                                    ExpectedGrace(MatchedRecord(m)), now)
                        = [classification |-> "orphan", shouldInclude |-> TRUE])
                  => ~HasEntry(m)
        /\ result.Summary.OrphanCount =
              Cardinality({i \in 1..Len(mediaFiles) :
                  /\ Scanned(mediaFiles[i])
                  /\ MatchedRecord(mediaFiles[i]) = Nil
                  /\ ToLower(Ext(mediaFiles[i].Path)) \notin SubtitleTypes})

C12_Witness ==
    /\ pc = "analyzed"
    /\ result.Summary.OrphanCount = 1
    /\ Len(result.ClassifiedMedia) = 1
    /\ \E i \in 1..Len(mediaFiles) :
          /\ ToLower(Ext(mediaFiles[i].Path)) \in SubtitleTypes
          /\ MatchedRecord(mediaFiles[i]) = Nil
          /\ ~HasEntry(mediaFiles[i])


\* C13 as stated: a second run of the engine over the same collections, the
\* same configuration and the same current time returns the same result
C13_RerunSameResult ==
    again.done => again.result = result


\* what the run would have returned with one manager's records replaced by
\* an empty collection
WithoutSonarr ==
    Analyze(engine, mediaFiles, <<>>, radarrFiles, torrents, permissions,
            [reads EXCEPT !.sn = <<>>])

WithoutRadarr ==
    Analyze(engine, mediaFiles, sonarrFiles, <<>>, torrents, permissions,
            [reads EXCEPT !.rn = <<>>])

Degraded(r) ==
    /\ r.Summary.OrphanCount >= result.Summary.OrphanCount
    /\ r.Summary.HealthyCount <= result.Summary.HealthyCount
    /\ r.Summary.AtRiskCount <= result.Summary.AtRiskCount

\* C14 as stated: with one manager's record set replaced by an empty
\* collection and everything else fixed, OrphanCount does not decrease and
\* HealthyCount and AtRiskCount do not increase
C14_EmptyManagerOnlyDegrades ==
    pc = "analyzed" => Degraded(WithoutSonarr) /\ Degraded(WithoutRadarr)


\* the issues of the last auditPermissions call with the given kind
IssuesOf(kind) == {i \in 1..Len(call.ret) : call.ret[i].Issue = kind}

OwnerAllowed(uid) == \E i \in 1..Len(engine.allowedUIDs) : engine.allowedUIDs[i] = uid

\* one wrong_owner issue exactly when the owner is not allowed, a warning for
\* a directory owned by the superuser and an error otherwise
WrongOwnerRule ==
    /\ IssuesOf("wrong_owner") # {} <=> ~OwnerAllowed(call.file.OwnerUID)
    /\ \A i \in IssuesOf("wrong_owner") :
          call.ret[i].Severity =
              IF call.file.IsDirectory /\ call.file.OwnerUID = 0 THEN "warning"
              ELSE "error"

\* C15 as stated: auditPermissions yields a wrong_owner issue exactly when the
\* owner is not in the allow-list, with severity warning for a directory
\* owned by uid 0 and error otherwise
C15_WrongOwnerExactly ==
    call.op = "auditPermissions" => WrongOwnerRule

\* C15 amended: the same for every record whose path is not a metadata
\* artifact; for a metadata artifact auditPermissions yields no issue at all,
\* whoever owns it
C15_WrongOwnerUnlessMetadata ==
    call.op = "auditPermissions" =>
        IF \E i \in 1..Len(metadataPatterns) :
              Match(metadataPatterns[i], Base(call.file.Path))
        THEN call.ret = <<>>
        ELSE WrongOwnerRule

C15_Witness ==
    /\ call.op = "auditPermissions"
    /\ call.file.IsDirectory
    /\ call.file.OwnerUID = 0
    /\ call.file.GroupGID = 1000
    /\ call.ret = <<[Path |-> call.file.Path, Issue |-> "wrong_owner",
                     Severity |-> "warning"]>>

\* exactly one issue of the kind, with the severity, if the condition holds,
\* and none otherwise
EmitsIff(kind, severity, condition) ==
    /\ Cardinality(IssuesOf(kind)) = IF condition THEN 1 ELSE 0
    /\ \A i \in IssuesOf(kind) : call.ret[i].Severity = severity

\* C16: for a record that is not a metadata artifact, wrong_group (error) is
\* emitted iff the group differs from the expected one, not_group_writable
\* (warning) iff the group-write bit is unset, missing_sgid (warning) iff the
\* entry is a directory under a set-group-id prefix without the bit, each
\* whatever the other checks found
C16_ChecksIndependent ==
    (call.op = "auditPermissions"
     /\ ~\E i \in 1..Len(metadataPatterns) :
            Match(metadataPatterns[i], Base(call.file.Path)))
    => /\ EmitsIff("wrong_group", "error",
                   call.file.GroupGID # engine.expectedGroupGID)
       /\ EmitsIff("not_group_writable", "warning",
                   (call.file.Mode \div 16) % 2 = 0)
       /\ EmitsIff("missing_sgid", "warning",
                   /\ call.file.IsDirectory
                   /\ \E i \in 1..Len(engine.sgidPaths) :
                         HasPrefix(call.file.Path, engine.sgidPaths[i])
                   /\ (call.file.Mode \div 1024) % 2 = 0)
       /\ \A i \in 1..Len(call.ret) :
             /\ call.ret[i].Path = call.file.Path
             /\ call.ret[i].Issue \in {"wrong_owner", "wrong_group",
                                       "not_group_writable", "missing_sgid"}

C16_Witness ==
    /\ call.op = "auditPermissions"
    /\ Len(call.ret) = 4
    /\ IssuesOf("wrong_owner") # {}
    /\ IssuesOf("wrong_group") # {}
    /\ IssuesOf("not_group_writable") # {}
    /\ IssuesOf("missing_sgid") # {}


\* the permission records the run audits: auditing enabled, the path under no
\* skip prefix and no metadata artifact
Audited(p) ==
    /\ engine.permissionsEnabled
    /\ \A i \in 1..Len(engine.skipPaths) : ~HasPrefix(p.Path, engine.skipPaths[i])
    /\ \A i \in 1..Len(metadataPatterns) : ~Match(metadataPatterns[i], Base(p.Path))

IssuesWithSeverity(isError) ==
    {i \in 1..Len(result.PermissionIssues) :
        (result.PermissionIssues[i].Severity = "error") = isError}

\* C17: every issue in PermissionIssues is for an audited record; with
\* auditing disabled the list is empty and both counters are 0; no issue is
\* for a record under a skip path or for a metadata artifact; the counters
\* count the issues of the list
C17_IssuesOnlyForAudited ==
    pc # "collected" =>
        /\ \A i \in 1..Len(result.PermissionIssues) :
              \E k \in 1..Len(permissions) :
                  /\ permissions[k].Path = result.PermissionIssues[i].Path
                  /\ Audited(permissions[k])
        /\ ~engine.permissionsEnabled =>
              /\ result.PermissionIssues = <<>>
              /\ result.Summary.PermissionErrors = 0
              /\ result.Summary.PermissionWarnings = 0
        /\ result.Summary.PermissionErrors = Cardinality(IssuesWithSeverity(TRUE))
        /\ result.Summary.PermissionWarnings = Cardinality(IssuesWithSeverity(FALSE))

C17_Witness ==
    /\ pc = "analyzed"
    /\ engine.permissionsEnabled
    /\ result.Summary.PermissionErrors > 0
    /\ \E k, l \in 1..Len(permissions) :
          /\ HasPrefix(permissions[k].Path, engine.skipPaths[1])
          /\ permissions[k].OwnerUID = 0
          /\ Match(metadataPatterns[3], Base(permissions[l].Path))
          /\ permissions[l].OwnerUID = 0
          /\ \A i \in 1..Len(result.PermissionIssues) :
                result.PermissionIssues[i].Path \notin {permissions[k].Path,
                                                        permissions[l].Path}


\* the collection runScan holds for a collector
CollectionOf(name) ==
    CASE name = "filesystem" -> mediaFiles
      [] name = "permissions" -> permissions
      [] name = "sonarr" -> sonarrFiles
      [] name = "radarr" -> radarrFiles
      [] name = "qbittorrent" -> torrents

\* C18 as stated: a configuration that cannot be loaded ends the run with
\* status 1 before any collector or the engine runs; a collector that fails
\* gets a warning and an empty collection in place of its output, and the
\* engine still runs
C18_ConfigFatalCollectorsNot ==
    /\ scan.exit = 1 => (scan.returned = {} /\ scan.analyzeCalls = 0)
    /\ \A name \in scan.failed :
          /\ name \in scan.warned
          /\ CollectionOf(name) = <<>>
    /\ scan.exit \in {0, 2} => scan.analyzeCalls = 1

\* the collectors runScan calls under the loaded configuration
CalledCollectors ==
    {"filesystem"}
    \cup (IF engine.permissionsEnabled THEN {"permissions"} ELSE {})
    \cup scan.configured

LongestPrefixRewrite(path, keys, from, to) ==
    LET matching == {k \in keys : HasPrefix(path, from[k])}
    IN  IF matching = {} THEN path
        ELSE LET k == CHOOSE k \in matching :
                          \A other \in matching : Len(from[other]) <= Len(from[k])
             IN  to[k] \o SubSeq(path, Len(from[k]) + 1, Len(path))

\* C20 as stated: NormalizePath substitutes the local prefix for the longest
\* external prefix that matches, NormalizePathReverse the external prefix for
\* the longest local prefix that matches, and a path that no mapping matches
\* is returned unchanged
C20_LongestPrefixChosen ==
    /\ call.op = "NormalizePath" =>
          call.ret = LongestPrefixRewrite(call.path, DOMAIN call.mappings,
                                          [k \in DOMAIN call.mappings |-> k],
                                          call.mappings)
    /\ call.op = "NormalizePathReverse" =>
          call.ret = LongestPrefixRewrite(call.path, DOMAIN call.mappings,
                                          call.mappings,
                                          [k \in DOMAIN call.mappings |-> k])


\* C21 as stated: after Analyze, Summary.TotalFiles is the number of media-file
\* records given to the engine, classified or not
C21_TotalFilesCountsScanned ==
    pc = "analyzed" => result.Summary.TotalFiles = Len(mediaFiles)


\* the media files whose lookup key both managers' record sets contain
Collides(m) ==
    /\ LastMatch(sonarrFiles, reads.sn, m) # Nil
    /\ LastMatch(radarrFiles, reads.rn, m) # Nil

\* C22: when both managers' record sets contain a file's normalized path, the
\* merged lookup holds the movie manager's last record for it, and the file is
\* excluded or classified with the movie manager's grace hours and, when
\* classified, tagged "radarr"
C22_CollisionResolvesToMovieManager ==
    pc = "analyzed" =>
        \A i \in 1..Len(mediaFiles) :
            LET m == mediaFiles[i]
                movie == LastMatch(radarrFiles, reads.rn, m)
                c == ClassifyMedia(m, movie, engine.radarrGraceHours, now)
            IN  (Scanned(m) /\ Collides(m)) =>
                  /\ MapGet(buildArrLookup(sonarrFiles, radarrFiles, reads.sn, reads.rn),
                            normalizePath(m.Path)) = movie
                  /\ HasEntry(m) <=> c.shouldInclude
                  /\ \A j \in 1..Len(result.ClassifiedMedia) :
                        result.ClassifiedMedia[j].File = m =>
                            /\ result.ClassifiedMedia[j].ArrSource = "radarr"
                            /\ result.ClassifiedMedia[j].Classification = c.classification

C22_Witness ==
    /\ pc = "analyzed"
    /\ \E i \in 1..Len(mediaFiles) :
          /\ Scanned(mediaFiles[i]) /\ Collides(mediaFiles[i])
          /\ RefWithinGrace(mediaFiles[i].ModTime, engine.sonarrGraceHours, now)
          /\ ~RefWithinGrace(mediaFiles[i].ModTime, engine.radarrGraceHours, now)
          /\ \E j \in 1..Len(result.ClassifiedMedia) :
                /\ result.ClassifiedMedia[j].File = mediaFiles[i]
                /\ result.ClassifiedMedia[j].ArrSource = "radarr"


\* C23 as stated: with flag_archives set and an override list whose entries
\* are written without the leading dot, a file whose extension (its dot
\* dropped) is one of the entries is reported as suspicious
C23_UndottedOverrideFlags ==
    call.op = "IsSuspicious" =>
        LET ext == ToLower(Ext(call.path))
        IN  (/\ call.flagArchives
             /\ ext # <<>>
             /\ InList(Tail(ext), call.extensions))
            => call.ret.suspicious


\* C24 as stated: with no extension override in the configuration and
\* flag_archives = true, every zip, rar or 7z file that the run classifies is
\* in SuspiciousFiles
C24_DefaultsFlagArchives ==
    (/\ pc = "analyzed"
     /\ "extensions" \in DOMAIN scan.config
     /\ scan.config.extensions = <<>>
     /\ scan.config.flagArchives)
    => \A i \in 1..Len(mediaFiles) :
          (/\ HasEntry(mediaFiles[i])
           /\ ToLower(Ext(mediaFiles[i].Path))
                \in {<<".","z","i","p">>, <<".","r","a","r">>, <<".","7","z">>})
          => \E j \in 1..Len(result.SuspiciousFiles) :
                result.SuspiciousFiles[j].Path = mediaFiles[i].Path


\* the results the engine has returned so far
Results == {result} \cup (IF again.done THEN {again.result} ELSE {})

\* C25: every torrent in UnlinkedTorrents is in the completed state and its
\* completion time is outside the download client's grace window (no grace
\* configured, or a known completion time at least the grace hours in the
\* past); a downloading, checking, paused or stalled torrent is never there
C25_UnlinkedOnlyCompletedOutsideGrace ==
    pc # "collected" =>
        \A r \in Results :
            /\ \A j \in 1..Len(r.UnlinkedTorrents) :
                  LET t == r.UnlinkedTorrents[j]
                  IN  /\ t.State = "completed"
                      /\ \/ engine.qbittorrentGraceHours <= 0
                         \/ /\ t.CompletedOn # ZeroTime
                            /\ t.CompletedOn <= now
                            /\ now - t.CompletedOn >= engine.qbittorrentGraceHours
            /\ \A k \in 1..Len(torrents) :
                  torrents[k].State \in {"downloading", "checking", "paused", "stalled"}
                  => \A j \in 1..Len(r.UnlinkedTorrents) :
                        r.UnlinkedTorrents[j].Hash # torrents[k].Hash

C25_Witness ==
    /\ pc = "analyzed"
    /\ engine.qbittorrentGraceHours <= 0
    /\ Len(result.UnlinkedTorrents) = 0
    /\ \E a, b, c \in 1..Len(torrents) :
          /\ torrents[a].State = "checking"
          /\ torrents[b].State = "paused"
          /\ torrents[c].State = "stalled"
          /\ \A k \in {a, b, c} :
                /\ ~TorrentLinked(k)
                /\ ~TorrentWithinGraceWindow(torrents[k].CompletedOn,
                                             engine.qbittorrentGraceHours, now)


\* C27: a completed torrent outside its grace window whose file list is
\* empty, as the collector keeps it when the file request fails, is in
\* UnlinkedTorrents
C27_EmptyTorrentUnlinked ==
    pc # "collected" =>
        \A r \in Results : \A k \in 1..Len(torrents) :
            (/\ torrents[k].State = "completed"
             /\ ~TorrentWithinGraceWindow(torrents[k].CompletedOn,
                                          engine.qbittorrentGraceHours, now)
             /\ Len(torrents[k].Files) = 0)
            => \E j \in 1..Len(r.UnlinkedTorrents) : r.UnlinkedTorrents[j] = torrents[k]

C27_Witness ==
    /\ pc = "analyzed"
    /\ engine.qbittorrentGraceHours > 0
    /\ \E k, l \in 1..Len(torrents) :
          /\ torrents[k].State = "completed"
          /\ Len(torrents[k].Files) = 0
          /\ now - torrents[k].CompletedOn >= engine.qbittorrentGraceHours
          /\ InUnlinked(torrents[k])
          /\ Len(torrents[l].Files) > 0
          /\ TorrentLinked(l)
          /\ ~InUnlinked(torrents[l])


\* the number of ClassifiedMedia entries with the given classification
EntriesWith(class) ==
    Cardinality({j \in 1..Len(result.ClassifiedMedia) :
                    result.ClassifiedMedia[j].Classification = class})

\* C26: after Analyze, HealthyCount, AtRiskCount and OrphanCount are the
\* numbers of ClassifiedMedia entries with that classification, every entry
\* is healthy, at_risk or orphan, SuspiciousCount is the length of
\* SuspiciousFiles, and PermissionErrors + PermissionWarnings is the length
\* of PermissionIssues
C26_SummaryAgreesWithLists ==
    pc = "analyzed" =>
        /\ result.Summary.HealthyCount = EntriesWith("healthy")
        /\ result.Summary.AtRiskCount = EntriesWith("at_risk")
        /\ result.Summary.OrphanCount = EntriesWith("orphan")
        /\ \A j \in 1..Len(result.ClassifiedMedia) :
              result.ClassifiedMedia[j].Classification \in {"healthy", "at_risk", "orphan"}
        /\ result.Summary.SuspiciousCount = Len(result.SuspiciousFiles)
        /\ result.Summary.PermissionErrors + result.Summary.PermissionWarnings
              = Len(result.PermissionIssues)

C26_Witness ==
    /\ pc = "analyzed"
    /\ Len(mediaFiles) > Len(result.ClassifiedMedia)
    /\ result.Summary.HealthyCount = 1
    /\ result.Summary.SuspiciousCount = 1
    /\ result.Summary.PermissionErrors + result.Summary.PermissionWarnings > 0
    /\ Len(result.UnlinkedTorrents) > 0


\* C28 as stated: mapQBState maps uploading, pausedUP and stalledUP to
\* completed, and downloading, metaDL, allocating, checkingDL, pausedDL,
\* stalledDL and every state it does not list to a state other than
\* completed; so a finished torrent with a completion time outside grace and
\* no linked file is reported as unlinked, and an unfinished one never is
C28_FinishedIffCompleted ==
    call.op = "mapQBState" =>
        IF call.state \in {"uploading", "pausedUP", "stalledUP"}
        THEN /\ call.ret = "completed"
             /\ call.completedOn # ZeroTime => call.unlinked
        ELSE call.state # "checkingUP" =>
                /\ call.ret # "completed"
                /\ ~call.unlinked


C30_InterruptKeepsFlow ==
    /\ scan.interrupted \subseteq scan.failed
    /\ (scan.cancelled /\ pc = "exited") =>
          (scan.analyzeCalls = 1 /\ scan.reported /\ scan.notified)

====
